---- MODULE Spec2Model ----
(***************************************************************************)
(* dmlc::any (include/dmlc/any.h): a type-erased container holding a       *)
(* descriptor pointer type_ and a storage union data_.                     *)
(*                                                                         *)
(* The program state is a set of container objects (slots), the heap, and  *)
(* a ghost table of every payload instance ever constructed (how often its *)
(* destructor ran, how often its heap block was released).  The code's     *)
(* functions are operators from a memory record to a memory record, so     *)
(* that a handler such as operator= composes them exactly as the source    *)
(* does (construct a temporary, swap, destroy the temporary).              *)
(***************************************************************************)
EXTENDS Integers, FiniteSets, Sequences, TLC

VARIABLES
  alive,   \* alive[s]: container object s exists (constructed, not destroyed)
  type_,   \* type_[s]: any::type_, the descriptor pointer (any.h:158)
  data_,   \* data_[s]: any::data_, the storage union (any.h:160)
  objT,    \* objT[p]: type of the payload instance p ("none": not made yet)
  hval,    \* hval[p]: the value in heap block p
  dtor,    \* dtor[p]: how often the destructor of instance p ran
  freed,   \* freed[p]: how often heap block p was released
  nextId,  \* the next instance made (the next address operator new returns)
  proc,    \* "running", "terminated" (std::terminate) or "fatal" (CHECK)
  last,    \* the client's last call and how it ended
  guard,   \* guard[T]: initialisation state of the static tp of get_type<T>
  static_tp, \* static_tp[T]: member type_ (struct Type) of that static tp
  made,    \* made[T]: how often the constructor TypeInfo<T>() was entered
  pc,      \* pc[t]: where thread t is in its call of get_type
  call     \* call[t]: the type thread t calls get_type for

anyvars == <<alive, type_, data_, objT, hval, dtor, freed, nextId, proc, last>>
regvars == <<guard, static_tp, made, pc, call>>
vars == <<alive, type_, data_, objT, hval, dtor, freed, nextId, proc, last,
          guard, static_tp, made, pc, call>>

(***************************************************************************)
(* Bounds                                                                  *)
(***************************************************************************)
\* number of payload instances the client program may construct
MaxObj == 2
\* number of threads that call get_type concurrently
NumThreads == 2

(***************************************************************************)
(* Constants of the program                                                *)
(***************************************************************************)
\* sizeof(void*) on the modelled (LP64) target
WordBytes == 8
kStack == WordBytes * 3
kAlign == WordBytes

nullptr == "nullptr"

\* the temporary object any(...) of the three operator= bodies
Tmp == "tmp"
\* the client's two container objects: the operands of every binary
\* operation (copy, move, assignment, swap)
Slots == {"a", "b"}
Objects == Slots \cup {Tmp}
Ids == 1..MaxObj
Ptrs == 0..MaxObj
\* payload values.  The container never looks at the value of a payload,
\* it has T's own constructors copy it: two values tell a copied value
\* from any other
Values == {0, 1}
Threads == 1..NumThreads

(***************************************************************************)
(* Payload types the client instantiates the templates with.               *)
(*   int    4 bytes, align 4, plain data                                   *)
(*   vec    3 words, align 1 word, non-trivial destructor (exactly fits)   *)
(*   pod4w  4 words, align 1 word, plain data             (too big)        *)
(*   ovr    2 words, align 2 words, non-trivial destructor (over-aligned)  *)
(* The container type itself ("any": a pointer and the three-word union)   *)
(* is what the templates are instantiated with when the argument is a      *)
(* container.                                                              *)
(***************************************************************************)
Types == {"int", "vec", "pod4w", "ovr"}

sizeof_(T) ==
  CASE T = "int"   -> 4
    [] T = "vec"   -> 3 * WordBytes
    [] T = "pod4w" -> 4 * WordBytes
    [] T = "ovr"   -> 2 * WordBytes
    [] T = "any"   -> WordBytes + kStack

alignof_(T) ==
  CASE T = "int"   -> 4
    [] T = "vec"   -> WordBytes
    [] T = "pod4w" -> WordBytes
    [] T = "ovr"   -> 2 * WordBytes
    [] T = "any"   -> WordBytes

is_pod(T) == T \in {"int", "pod4w"}

\* a variant of data_on_stack with a strict size test
data_on_stack_strict(T) == alignof_(T) <= kAlign /\ sizeof_(T) < kStack

\* struct data_on_stack<T>
data_on_stack(T) == alignof_(T) <= kAlign /\ sizeof_(T) <= kStack

\* a copy of a payload can throw: operator new (heap strategy) or T's own
\* copy constructor (types that are not plain data)
CanThrow(T) == ~is_pod(T) \/ ~data_on_stack(T)

\* &typeid(T): one token per type; typeid(void) for "no type"
typeid(T) == <<"type_info", T>>
typeid_void == <<"type_info", "void">>

(***************************************************************************)
(* union Data.  tag says which member was written last; id is the heap     *)
(* pointer (heap) or the ghost identity of the inline instance (stack);    *)
(* val is the inline value.                                                *)
(***************************************************************************)
StackData(id, v) == [tag |-> "stack", id |-> id, val |-> v]
HeapData(p) == [tag |-> "heap", id |-> p, val |-> 0]
\* the bytes of a union nobody has written: any of these
Indet == {StackData(0, 0), HeapData(0)}
\* storage of an object that does not exist
NoData == [tag |-> "none", id |-> 0, val |-> 0]

\* the memory as one record, as the operators below take and return it
Mem ==
  [alive |-> alive, type_ |-> type_, data_ |-> data_, objT |-> objT,
   hval |-> hval, dtor |-> dtor, freed |-> freed, nextId |-> nextId,
   proc |-> proc, exc |-> FALSE]

\* still executing normally: not terminated, no exception in flight
Ok(m) == m.proc = "running" /\ ~m.exc

\* throw: an exception is in flight
Throw(m) == [m EXCEPT !.exc = TRUE]

\* leaving a noexcept function with an exception in flight: std::terminate
Noexcept(m) ==
  IF m.exc THEN [m EXCEPT !.exc = FALSE, !.proc = "terminated"] ELSE m

\* CHECK(cond) failing: the fatal-error path, control does not continue
Fatal(m) == [m EXCEPT !.proc = "fatal"]

\* new T(v): operator new returns a fresh block, T's constructor fills it
NewHeap(m, T, v) ==
  [m EXCEPT !.objT[m.nextId] = T, !.hval[m.nextId] = v, !.nextId = @ + 1]

\* new (&stack) T(v): T's constructor runs in the container's own buffer
NewInline(m, T) ==
  [m EXCEPT !.objT[m.nextId] = T, !.nextId = @ + 1]

\* a T* into the heap or into the buffer of container s
HeapRef(p) == [kind |-> "heap", p |-> p, s |-> Tmp]
StackRef(s) == [kind |-> "stack", p |-> 0, s |-> s]
NoRef == [kind |-> "none", p |-> 0, s |-> Tmp]

\* *ref as an rvalue, and *ref = v
Load(m, ref) ==
  IF ref.kind = "heap" THEN m.hval[ref.p] ELSE m.data_[ref.s].val

Store(m, ref, v) ==
  IF ref.kind = "heap"
  THEN [m EXCEPT !.hval[ref.p] = v]
  ELSE [m EXCEPT !.data_[ref.s].val = v]

(***************************************************************************)
(* class any::TypeOnHeap<T>                                                *)
(***************************************************************************)
TypeOnHeap_get_ptr(m, s) == HeapRef(m.data_[s].id)

\* a variant of TypeOnHeap_create_from_data that copies the pointer, not
\* the value it points at
TypeOnHeap_create_shallow(T, m, dst, src, fail) ==
  IF fail THEN Throw(m)
  ELSE [m EXCEPT !.data_[dst] = HeapData(m.data_[src].id)]

TypeOnHeap_create_from_data(T, m, dst, src, fail) ==
  IF fail THEN Throw(m)
  ELSE LET v == Load(m, TypeOnHeap_get_ptr(m, src))
           m1 == NewHeap(m, T, v)
       IN [m1 EXCEPT !.data_[dst] = HeapData(m.nextId)]

\* delete static_cast<T*>(data->pheap): ~T() runs, the block is released
\* and what it held is gone
TypeOnHeap_destroy(m, s) ==
  LET p == m.data_[s].id
  IN IF p = 0 THEN m
     ELSE [m EXCEPT !.dtor[p] = @ + 1, !.freed[p] = @ + 1, !.hval[p] = 0]

(***************************************************************************)
(* class any::TypeOnStack<T>                                               *)
(***************************************************************************)
TypeOnStack_get_ptr(m, s) == StackRef(s)

TypeOnStack_create_from_data(T, m, dst, src, fail) ==
  IF fail THEN Throw(m)
  ELSE LET v == Load(m, TypeOnStack_get_ptr(m, src))
           m1 == NewInline(m, T)
       IN [m1 EXCEPT !.data_[dst] = StackData(m.nextId, v)]

\* dptr->~T(): the destructor runs, nothing is released
TypeOnStack_destroy(m, s) ==
  LET p == m.data_[s].id
  IN IF p = 0 THEN m ELSE [m EXCEPT !.dtor[p] = @ + 1]

(***************************************************************************)
(* class any::TypeInfo<T>: inherits TypeOnStack<T> or TypeOnHeap<T>; its   *)
(* constructor fills the descriptor (struct Type).  A function pointer is  *)
(* the name of the class whose member it is.                               *)
(***************************************************************************)
Strategy(T) == IF data_on_stack(T) THEN "TypeOnStack" ELSE "TypeOnHeap"

TypeInfo(T) ==
  [destroy          |-> IF is_pod(T) THEN nullptr ELSE Strategy(T),
   create_from_data |-> Strategy(T),
   ptype_info       |-> typeid(T)]

\* TypeInfo<T>::get_type(): the address of the one static descriptor of T
get_type(T) == T

TypeInfo_get_ptr(T, m, s) ==
  IF Strategy(T) = "TypeOnStack"
  THEN TypeOnStack_get_ptr(m, s)
  ELSE TypeOnHeap_get_ptr(m, s)

\* type_->create_from_data(&dst, src) and type_->destroy(&data)
call_create_from_data(tp, m, dst, src, fail) ==
  IF TypeInfo(tp).create_from_data = "TypeOnStack"
  THEN TypeOnStack_create_from_data(tp, m, dst, src, fail)
  ELSE TypeOnHeap_create_from_data(tp, m, dst, src, fail)

call_destroy(tp, m, s) ==
  IF TypeInfo(tp).destroy = "TypeOnStack"
  THEN TypeOnStack_destroy(m, s)
  ELSE TypeOnHeap_destroy(m, s)

(***************************************************************************)
(* class any: the members                                                  *)
(***************************************************************************)
\* the object comes into being: type_{nullptr}, data_ not initialised
member_init(m, this, junk) ==
  [m EXCEPT !.type_[this] = nullptr, !.data_[this] = junk]

\* the object's constructor has returned: its lifetime has begun
begin_lifetime(m, this) ==
  IF Ok(m) THEN [m EXCEPT !.alive[this] = TRUE] ELSE m

\* the object's lifetime has ended
end_lifetime(m, this) == [m EXCEPT !.alive[this] = FALSE]

\* a variant of construct_move that does not reset the source
construct_move_keeps_source(m, this, other) ==
  LET m1 == [m EXCEPT !.type_[this] = m.type_[other]]
  IN [m1 EXCEPT !.data_[this] = m1.data_[other]]

\* void any::construct(any&& other) noexcept
construct_move(m, this, other) ==
  LET m1 == [m EXCEPT !.type_[this] = m.type_[other]]
      m2 == [m1 EXCEPT !.data_[this] = m1.data_[other]]
  IN [m2 EXCEPT !.type_[other] = nullptr]

\* a variant of construct_copy that copies the descriptor and leaves the
\* buffer as it is
construct_copy_type_only(m, this, other, fail) ==
  [m EXCEPT !.type_[this] = m.type_[other]]

\* void any::construct(const any& other) noexcept
construct_copy(m, this, other, fail) ==
  LET m1 == [m EXCEPT !.type_[this] = m.type_[other]]
  IN IF m1.type_[this] # nullptr
     THEN Noexcept(call_create_from_data(m1.type_[this], m1, this, other, fail))
     ELSE m1

\* a variant of any_value that takes the heap arm for inline types and the
\* inline arm for heap types
any_value_arms_swapped(m, this, T, v, fail, junk) ==
  LET m0 == member_init(m, this, junk)
      m1 == [m0 EXCEPT !.type_[this] = get_type(T)]
      m2 == IF fail THEN Throw(m1)
            ELSE IF ~data_on_stack(T)
            THEN [NewInline(m1, T) EXCEPT !.data_[this] = StackData(m1.nextId, v)]
            ELSE [NewHeap(m1, T, v) EXCEPT !.data_[this] = HeapData(m1.nextId)]
  IN begin_lifetime(m2, this)

\* any::any(T&& other), T not the container type
any_value(m, this, T, v, fail, junk) ==
  LET m0 == member_init(m, this, junk)
      m1 == [m0 EXCEPT !.type_[this] = get_type(T)]
      m2 == IF fail THEN Throw(m1)
            ELSE IF data_on_stack(T)
            THEN [NewInline(m1, T) EXCEPT !.data_[this] = StackData(m1.nextId, v)]
            ELSE [NewHeap(m1, T, v) EXCEPT !.data_[this] = HeapData(m1.nextId)]
  IN begin_lifetime(m2, this)

\* std::is_same<DT, any>::value
is_same_any(DT) == DT = "any"

\* this->construct(std::forward<T>(other)) for a container other: T = any
\* forwards an rvalue, which construct(any&&) takes; T = any& forwards an
\* lvalue, which construct(const any&) takes
construct_forward(m, this, other, T, fail) ==
  IF T = "any"
  THEN construct_move(m, this, other)
  ELSE construct_copy(m, this, other, fail)

\* a variant of any_forward without the is_same test: the container is
\* stored as a payload like any other type
any_forward_wraps(m, this, other, T, fail, junk) ==
  LET m0 == member_init(m, this, junk)
      m1 == [m0 EXCEPT !.type_[this] = get_type("any")]
      m2 == IF fail THEN Throw(m1)
            ELSE [NewHeap(m1, "any", 0) EXCEPT !.data_[this] = HeapData(m1.nextId)]
  IN begin_lifetime(m2, this)

\* any::any(T&& other) with other a container: DT = decay<T> = any
any_forward(m, this, other, T, fail, junk) ==
  LET DT == "any"
      m0 == member_init(m, this, junk)
      m1 == IF is_same_any(DT)
            THEN construct_forward(m0, this, other, T, fail)
            ELSE LET m2 == [m0 EXCEPT !.type_[this] = get_type(DT)]
                 IN IF fail THEN Throw(m2)
                    ELSE IF data_on_stack(DT)
                    THEN [NewInline(m2, DT) EXCEPT
                            !.data_[this] = StackData(m2.nextId, 0)]
                    ELSE [NewHeap(m2, DT, 0) EXCEPT
                            !.data_[this] = HeapData(m2.nextId)]
  IN begin_lifetime(m1, this)

\* any::any(any&& other)
any_move(m, this, other, junk) ==
  begin_lifetime(construct_move(member_init(m, this, junk), this, other), this)

\* a variant of any_copy that copies descriptor and buffer member by member
any_copy_bitwise(m, this, other, fail, junk) ==
  LET m1 == [m EXCEPT !.type_[this] = m.type_[other]]
  IN begin_lifetime([m1 EXCEPT !.data_[this] = m1.data_[other]], this)

\* any::any(const any& other)
any_copy(m, this, other, fail, junk) ==
  begin_lifetime(construct_copy(member_init(m, this, junk), this, other, fail), this)

\* any::any() = default
any_default(m, this, junk) ==
  begin_lifetime(member_init(m, this, junk), this)

\* a variant of swap that exchanges the descriptors only
swap_type_only(m, this, other) ==
  LET t == m.type_[this]
      m1 == [m EXCEPT !.type_[this] = m.type_[other]]
  IN [m1 EXCEPT !.type_[other] = t]

\* void any::swap(any& other) noexcept
swap(m, this, other) ==
  LET t == m.type_[this]
      m1 == [m EXCEPT !.type_[this] = m.type_[other]]
      m2 == [m1 EXCEPT !.type_[other] = t]
      d == m2.data_[this]
      m3 == [m2 EXCEPT !.data_[this] = m2.data_[other]]
  IN [m3 EXCEPT !.data_[other] = d]

\* a variant of clear that destroys the value but keeps the descriptor
clear_keeps_type(m, this) ==
  IF m.type_[this] # nullptr
  THEN IF TypeInfo(m.type_[this]).destroy # nullptr
       THEN call_destroy(m.type_[this], m, this)
       ELSE m
  ELSE m

\* void any::clear()
clear(m, this) ==
  IF m.type_[this] # nullptr
  THEN LET m1 == IF TypeInfo(m.type_[this]).destroy # nullptr
                 THEN call_destroy(m.type_[this], m, this)
                 ELSE m
       IN [m1 EXCEPT !.type_[this] = nullptr]
  ELSE m

\* a variant of any_dtor that ends the object without clear()
any_dtor_trivial(m, this) == end_lifetime(m, this)

\* any::~any()
any_dtor(m, this) == end_lifetime(clear(m, this), this)

\* the full expression  any(...).swap(*this);  given the memory after the
\* temporary's constructor: swap, then the temporary is destroyed
swap_and_drop(m, this) ==
  IF Ok(m) THEN any_dtor(swap(m, Tmp, this), Tmp) ELSE m

\* a variant of assign_move without the temporary: clear, then take over
assign_move_clear_first(m, this, other, junk) ==
  Noexcept(construct_move(clear(m, this), this, other))

\* any& any::operator=(any&& other) noexcept
assign_move(m, this, other, junk) ==
  Noexcept(swap_and_drop(any_move(m, Tmp, other, junk), this))

\* any& any::operator=(const any& other) noexcept
assign_copy(m, this, other, fail, junk) ==
  Noexcept(swap_and_drop(any_copy(m, Tmp, other, fail, junk), this))

\* any& any::operator=(T&& other) noexcept, T not the container type
assign_value(m, this, T, v, fail, junk) ==
  Noexcept(swap_and_drop(any_value(m, Tmp, T, v, fail, junk), this))

\* a variant of empty that looks at the buffer, not at the descriptor
empty_by_data(m, this) == m.data_[this].id = 0

\* any& any::operator=(T&& other) noexcept with other a container
assign_forward(m, this, other, T, fail, junk) ==
  Noexcept(swap_and_drop(any_forward(m, Tmp, other, T, fail, junk), this))

\* bool any::empty() const noexcept
empty(m, this) == m.type_[this] = nullptr

\* const std::type_info& any::type() const
type(m, this) ==
  IF m.type_[this] # nullptr
  THEN TypeInfo(m.type_[this]).ptype_info
  ELSE typeid_void

\* a variant of check_type without the second CHECK
check_type_nonempty_only(m, this, T) == m.type_[this] # nullptr

\* void any::check_type<T>(): TRUE when both CHECKs pass
check_type(m, this, T) ==
  /\ m.type_[this] # nullptr
  /\ TypeInfo(m.type_[this]).ptype_info = typeid(T)

\* a variant of get that hands the value out and empties the container
get_and_clear(m, this, T) ==
  IF check_type(m, this, T)
  THEN [mem |-> clear(m, this), ref |-> TypeInfo_get_ptr(T, m, this)]
  ELSE [mem |-> Fatal(m), ref |-> NoRef]

\* T& any::get<T>(): the memory afterwards and the reference returned
get(m, this, T) ==
  IF check_type(m, this, T)
  THEN [mem |-> m, ref |-> TypeInfo_get_ptr(T, m, this)]
  ELSE [mem |-> Fatal(m), ref |-> NoRef]

(***************************************************************************)
(* The client program: it owns two places for container objects and calls  *)
(* the public members on them in any order.  last records the call just    *)
(* made and how it ended:                                                  *)
(*   ok         returned normally                                          *)
(*   throw      an exception reached the caller                            *)
(*   terminate  an exception left a noexcept function: std::terminate      *)
(*   fatal      a CHECK failed                                             *)
(* op names the client's statement: "any_copy" is  any s(o);  and          *)
(* "assign_copy" is  s = o;  for a container o, const or not.              *)
(* self says that both operands were the same object; cleared is the       *)
(* object a clear() was called on, and rep says that the previous call was *)
(* a clear() of that same object.                                          *)
(***************************************************************************)
Outcome(m) ==
  CASE m.proc = "terminated" -> "terminate"
    [] m.proc = "fatal"      -> "fatal"
    [] m.exc                 -> "throw"
    [] OTHER                 -> "ok"

Call(op, a, b, m) ==
  [op |-> op, res |-> Outcome(m), self |-> (a = b),
   cleared |-> IF op = "clear" THEN a ELSE Tmp,
   rep |-> (op = "clear" /\ last.op = "clear" /\ last.cleared = a)]

\* the memory m becomes the state.  An exception that reached the caller
\* has been caught by it; storage that holds no object is not state.
Commit(m) ==
  /\ alive' = m.alive
  /\ type_' = [s \in Objects |-> IF m.alive[s] THEN m.type_[s] ELSE nullptr]
  /\ data_' = [s \in Objects |-> IF m.alive[s] THEN m.data_[s] ELSE NoData]
  /\ objT' = m.objT
  /\ hval' = m.hval
  /\ dtor' = m.dtor
  /\ freed' = m.freed
  /\ nextId' = m.nextId
  /\ proc' = m.proc
  /\ UNCHANGED regvars

\* struct Type of an object of static storage duration before its
\* constructor has run: zero-initialised
ZeroType ==
  [destroy |-> nullptr, create_from_data |-> nullptr, ptype_info |-> nullptr]

Room == nextId <= MaxObj

\* junk that is always overwritten before anybody could see it
AnyJunk == HeapData(0)

\* no container exists, nothing has been constructed
AnyInit ==
  /\ alive = [s \in Objects |-> FALSE]
  /\ type_ = [s \in Objects |-> nullptr]
  /\ data_ = [s \in Objects |-> NoData]
  /\ objT = [i \in Ptrs |-> "none"]
  /\ hval = [i \in Ptrs |-> 0]
  /\ dtor = [i \in Ptrs |-> 0]
  /\ freed = [i \in Ptrs |-> 0]
  /\ nextId = 1
  /\ proc = "running"
  /\ last = [op |-> "init", res |-> "ok", self |-> FALSE, cleared |-> Tmp,
             rep |-> FALSE]

\* the single-threaded client below reads its descriptors through
\* TypeInfo(T); the registry's own steps are the subject of RegSpec
RegUnused ==
  /\ guard = <<>>
  /\ static_tp = <<>>
  /\ made = <<>>
  /\ pc = <<>>
  /\ call = <<>>

Init == AnyInit /\ RegUnused

\* any s;
DefaultConstructAt(s, junk) ==
  /\ proc = "running" /\ ~alive[s]
  /\ \E m \in {any_default(Mem, s, junk)} :
       Commit(m) /\ last' = Call("any", s, Tmp, m)

DefaultConstruct == \E s \in Slots, junk \in Indet : DefaultConstructAt(s, junk)

\* any s(v);  with v of payload type T.  fail: the payload's constructor or
\* operator new throws (whatever v is, so one v stands for all)
ValueConstructAt(s, T, v, fail) ==
  /\ proc = "running" /\ ~alive[s] /\ Room
  /\ fail => (CanThrow(T) /\ v = 0)
  /\ \E m \in {any_value(Mem, s, T, v, fail, AnyJunk)} :
       Commit(m) /\ last' = Call("any_value", s, Tmp, m)

ValueConstruct ==
  \E s \in Slots, T \in Types, v \in Values, fail \in BOOLEAN :
    ValueConstructAt(s, T, v, fail)

\* any s(o);  o a const container.  junk: the bytes data_ starts with,
\* which stay when o is empty and are overwritten otherwise
CopyConstructAt(s, o, fail, junk) ==
  /\ proc = "running" /\ ~alive[s] /\ alive[o]
  /\ type_[o] # nullptr => (Room /\ junk = AnyJunk)
  /\ fail => (type_[o] # nullptr /\ CanThrow(type_[o]))
  /\ \E m \in {any_copy(Mem, s, o, fail, junk)} :
       Commit(m) /\ last' = Call("any_copy", s, o, m)

CopyConstruct ==
  \E s \in Slots, o \in Slots, fail \in BOOLEAN, junk \in Indet :
    CopyConstructAt(s, o, fail, junk)

\* any s(std::move(o));
MoveConstructAt(s, o) ==
  /\ proc = "running" /\ ~alive[s] /\ alive[o]
  /\ \E m \in {any_move(Mem, s, o, AnyJunk)} :
       Commit(m) /\ last' = Call("any_move", s, o, m)

MoveConstruct == \E s \in Slots, o \in Slots : MoveConstructAt(s, o)

\* s goes out of scope
DestructAt(s) ==
  /\ proc = "running" /\ alive[s]
  /\ \E m \in {any_dtor(Mem, s)} :
       Commit(m) /\ last' = Call("dtor", s, Tmp, m)

Destruct == \E s \in Slots : DestructAt(s)

\* s = std::move(o);   (o may be s itself)
MoveAssignAt(s, o) ==
  /\ proc = "running" /\ alive[s] /\ alive[o]
  /\ \E m \in {assign_move(Mem, s, o, AnyJunk)} :
       Commit(m) /\ last' = Call("assign_move", s, o, m)

MoveAssign == \E s \in Slots, o \in Slots : MoveAssignAt(s, o)

\* s = o;   o a const container (o may be s itself)
CopyAssignAt(s, o, fail, junk) ==
  /\ proc = "running" /\ alive[s] /\ alive[o]
  /\ type_[o] # nullptr => (Room /\ junk = AnyJunk)
  /\ fail => (type_[o] # nullptr /\ CanThrow(type_[o]))
  /\ \E m \in {assign_copy(Mem, s, o, fail, junk)} :
       Commit(m) /\ last' = Call("assign_copy", s, o, m)

CopyAssign ==
  \E s \in Slots, o \in Slots, fail \in BOOLEAN, junk \in Indet :
    CopyAssignAt(s, o, fail, junk)

\* s = v;  with v of payload type T
ValueAssignAt(s, T, v, fail) ==
  /\ proc = "running" /\ alive[s] /\ Room
  /\ fail => (CanThrow(T) /\ v = 0)
  /\ \E m \in {assign_value(Mem, s, T, v, fail, AnyJunk)} :
       Commit(m) /\ last' = Call("assign_value", s, Tmp, m)

ValueAssign ==
  \E s \in Slots, T \in Types, v \in Values, fail \in BOOLEAN :
    ValueAssignAt(s, T, v, fail)

\* any s(o);  o a container that is not const: the template constructor
\* any(T&&) with T = any& is the better match
ForwardConstructAt(s, o, fail, junk) ==
  /\ proc = "running" /\ ~alive[s] /\ alive[o]
  /\ type_[o] # nullptr => (Room /\ junk = AnyJunk)
  /\ fail => (type_[o] # nullptr /\ CanThrow(type_[o]))
  /\ \E m \in {any_forward(Mem, s, o, "any&", fail, junk)} :
       Commit(m) /\ last' = Call("any_copy", s, o, m)

ForwardConstruct ==
  \E s \in Slots, o \in Slots, fail \in BOOLEAN, junk \in Indet :
    ForwardConstructAt(s, o, fail, junk)

\* s = o;  o a container that is not const (o may be s itself): the
\* template operator=(T&&) with T = any& is the better match
ForwardAssignAt(s, o, fail, junk) ==
  /\ proc = "running" /\ alive[s] /\ alive[o]
  /\ type_[o] # nullptr => (Room /\ junk = AnyJunk)
  /\ fail => (type_[o] # nullptr /\ CanThrow(type_[o]))
  /\ \E m \in {assign_forward(Mem, s, o, "any&", fail, junk)} :
       Commit(m) /\ last' = Call("assign_copy", s, o, m)

ForwardAssign ==
  \E s \in Slots, o \in Slots, fail \in BOOLEAN, junk \in Indet :
    ForwardAssignAt(s, o, fail, junk)

\* s.swap(o);   (o may be s itself)
SwapAt(s, o) ==
  /\ proc = "running" /\ alive[s] /\ alive[o]
  /\ \E m \in {swap(Mem, s, o)} :
       Commit(m) /\ last' = Call("swap", s, o, m)

Swap == \E s \in Slots, o \in Slots : SwapAt(s, o)

\* s.clear();
ClearAt(s) ==
  /\ proc = "running" /\ alive[s]
  /\ \E m \in {clear(Mem, s)} :
       Commit(m) /\ last' = Call("clear", s, Tmp, m)

Clear == \E s \in Slots : ClearAt(s)

\* s.get<T>();
GetAt(s, T) ==
  /\ proc = "running" /\ alive[s]
  /\ \E r \in {get(Mem, s, T)} :
       Commit(r.mem) /\ last' = Call("get", s, Tmp, r.mem)

Get == \E s \in Slots, T \in Types : GetAt(s, T)

\* s.get<T>() = v;   (a get<T>() whose CHECK fails is the step Get)
GetStoreAt(s, T, v) ==
  /\ proc = "running" /\ alive[s]
  /\ check_type(Mem, s, T)
  /\ \E r \in {get(Mem, s, T)} :
       \E m \in {IF Ok(r.mem) THEN Store(r.mem, r.ref, v) ELSE r.mem} :
         Commit(m) /\ last' = Call("get_store", s, Tmp, m)

GetStore == \E s \in Slots, T \in Types, v \in Values : GetStoreAt(s, T, v)

\* s.empty();   a const member: it reads, the memory stays as it is
EmptyAt(s) ==
  /\ proc = "running" /\ alive[s]
  /\ empty(Mem, s) \in BOOLEAN
  /\ Commit(Mem) /\ last' = Call("empty", s, Tmp, Mem)

Empty == \E s \in Slots : EmptyAt(s)

\* s.type();   a const member: it reads, the memory stays as it is
TypeQueryAt(s) ==
  /\ proc = "running" /\ alive[s]
  /\ type(Mem, s) \in {typeid(T) : T \in Types} \cup {typeid_void}
  /\ Commit(Mem) /\ last' = Call("type", s, Tmp, Mem)

TypeQuery == \E s \in Slots : TypeQueryAt(s)

Next ==
  \/ DefaultConstruct
  \/ ValueConstruct
  \/ CopyConstruct
  \/ MoveConstruct
  \/ Destruct
  \/ MoveAssign
  \/ CopyAssign
  \/ ValueAssign
  \/ Swap
  \/ Clear
  \/ Get
  \/ GetStore
  \/ Empty
  \/ TypeQuery
  \/ ForwardConstruct
  \/ ForwardAssign

Spec == Init /\ [][Next]_vars

(***************************************************************************)
(* The descriptor registry: TypeInfo<T>::get_type() called from several    *)
(* threads.  tp is a block-scope static: the first thread to reach its     *)
(* declaration runs the constructor, a thread that reaches it meanwhile    *)
(* waits, and every later thread skips it.  The constructor's three        *)
(* assignments are separate steps.                                         *)
(*   idle -> enter -> (ctor_destroy -> ctor_create -> ctor_info ->         *)
(*   ctor_end ->) ret -> idle                                              *)
(***************************************************************************)
\* a variant of static_initialised that lets a thread pass as soon as some
\* thread has begun the initialisation
static_begun(g) == g # "uninit"

\* the test at the declaration  static TypeInfo<T> tp;  : the object is
\* initialised, control passes on
static_initialised(g) == g = "done"

\* thread t calls TypeInfo<T>::get_type()
RegCall(t, T) ==
  /\ pc[t] = "idle"
  /\ pc' = [pc EXCEPT ![t] = "enter"]
  /\ call' = [call EXCEPT ![t] = T]
  /\ UNCHANGED <<guard, static_tp, made>>
  /\ UNCHANGED anyvars

\* static TypeInfo<T> tp;  already initialised: nothing to do
RegPass(t) ==
  /\ pc[t] = "enter"
  /\ static_initialised(guard[call[t]])
  /\ pc' = [pc EXCEPT ![t] = "ret"]
  /\ UNCHANGED <<guard, static_tp, made, call>>
  /\ UNCHANGED anyvars

\* static TypeInfo<T> tp;  not initialised and nobody at it: this thread
\* initialises it
RegBegin(t) ==
  /\ pc[t] = "enter"
  /\ guard[call[t]] = "uninit"
  /\ guard' = [guard EXCEPT ![call[t]] = "busy"]
  /\ made' = [made EXCEPT ![call[t]] = @ + 1]
  /\ pc' = [pc EXCEPT ![t] = "ctor_destroy"]
  /\ UNCHANGED <<static_tp, call>>
  /\ UNCHANGED anyvars

\* TypeInfo(): type_.destroy = nullptr  or  = TypeInfo<T>::destroy
RegCtorDestroy(t) ==
  /\ pc[t] = "ctor_destroy"
  /\ static_tp' = [static_tp EXCEPT ![call[t]].destroy =
                                      TypeInfo(call[t]).destroy]
  /\ pc' = [pc EXCEPT ![t] = "ctor_create"]
  /\ UNCHANGED <<guard, made, call>>
  /\ UNCHANGED anyvars

\* TypeInfo(): type_.create_from_data = TypeInfo<T>::create_from_data
RegCtorCreate(t) ==
  /\ pc[t] = "ctor_create"
  /\ static_tp' = [static_tp EXCEPT ![call[t]].create_from_data =
                                      TypeInfo(call[t]).create_from_data]
  /\ pc' = [pc EXCEPT ![t] = "ctor_info"]
  /\ UNCHANGED <<guard, made, call>>
  /\ UNCHANGED anyvars

\* TypeInfo(): type_.ptype_info = &typeid(T)
RegCtorInfo(t) ==
  /\ pc[t] = "ctor_info"
  /\ static_tp' = [static_tp EXCEPT ![call[t]].ptype_info =
                                      TypeInfo(call[t]).ptype_info]
  /\ pc' = [pc EXCEPT ![t] = "ctor_end"]
  /\ UNCHANGED <<guard, made, call>>
  /\ UNCHANGED anyvars

\* the constructor has returned: the initialisation of tp is complete
RegEnd(t) ==
  /\ pc[t] = "ctor_end"
  /\ guard' = [guard EXCEPT ![call[t]] = "done"]
  /\ pc' = [pc EXCEPT ![t] = "ret"]
  /\ UNCHANGED <<static_tp, made, call>>
  /\ UNCHANGED anyvars

\* return &(tp.type_);  the caller has the descriptor and goes on
RegReturn(t) ==
  /\ pc[t] = "ret"
  /\ pc' = [pc EXCEPT ![t] = "idle"]
  /\ call' = [call EXCEPT ![t] = "none"]
  /\ UNCHANGED <<guard, static_tp, made>>
  /\ UNCHANGED anyvars

\* no descriptor has been asked for yet; no thread is in get_type
RegInit ==
  /\ AnyInit
  /\ guard = [T \in Types |-> "uninit"]
  /\ static_tp = [T \in Types |-> ZeroType]
  /\ made = [T \in Types |-> 0]
  /\ pc = [t \in Threads |-> "idle"]
  /\ call = [t \in Threads |-> "none"]

RegNext ==
  \/ \E t \in Threads, T \in Types : RegCall(t, T)
  \/ \E t \in Threads : RegPass(t)
  \/ \E t \in Threads : RegBegin(t)
  \/ \E t \in Threads : RegCtorDestroy(t)
  \/ \E t \in Threads : RegCtorCreate(t)
  \/ \E t \in Threads : RegCtorInfo(t)
  \/ \E t \in Threads : RegEnd(t)
  \/ \E t \in Threads : RegReturn(t)

RegSpec == RegInit /\ [][RegNext]_vars

(***************************************************************************)
(* Reading the state                                                       *)
(***************************************************************************)
\* s is an existing container that holds a value
Holds(m, s) == m.alive[s] /\ m.type_[s] # nullptr

\* the value in container s, read the way get<T>() reads it for the stored T
ValueOf(m, s) == Load(m, TypeInfo_get_ptr(m.type_[s], m, s))

\* the payload instance a reference points at
InstanceOf(m, ref) == IF ref.kind = "heap" THEN ref.p ELSE m.data_[ref.s].id

\* instance p exists as a T: constructed, not destroyed, not released
Live(m, p, T) == m.objT[p] = T /\ m.dtor[p] = 0 /\ m.freed[p] = 0

\* no payload was constructed or destroyed, no block allocated or released
GhostUnchanged ==
  /\ objT' = objT
  /\ hval' = hval
  /\ dtor' = dtor
  /\ freed' = freed
  /\ nextId' = nextId

(***************************************************************************)
(* C1: constructing a container from a value v of type T gives a non-empty *)
(* container whose type() is T's token and whose get<T>() refers to a      *)
(* value equal to v, for inline and for heap types.                        *)
(***************************************************************************)
C1_ConstructFromValue ==
  [][last'.op = "any_value" =>
     \A s \in Slots, T \in Types, v \in Values :
       ValueConstructAt(s, T, v, FALSE) =>
         /\ alive'[s]
         /\ ~empty(Mem', s)
         /\ type(Mem', s) = typeid(T)
         /\ LET r == get(Mem', s, T)
            IN /\ r.mem.proc = "running"
               /\ r.ref # NoRef
               /\ Load(r.mem, r.ref) = v
               /\ Live(Mem', InstanceOf(Mem', r.ref), T)]_vars

\* a heap payload with a non-zero value has just been constructed
C1_Witness ==
  /\ last.op = "any_value" /\ last.res = "ok"
  /\ \E s \in Slots :
       /\ Holds(Mem, s) /\ ~data_on_stack(type_[s])
       /\ data_[s].id = nextId - 1
       /\ ValueOf(Mem, s) # 0

(***************************************************************************)
(* C2: a payload whose type does not fit the inline threshold lives in a   *)
(* heap block, and that block is released exactly once, when the container *)
(* holding it is cleared or destroyed: at any time a heap block has been   *)
(* released at most once, and it is unreleased exactly while some          *)
(* non-empty container holds it.                                           *)
(***************************************************************************)
C2_HeapBlockReleasedExactlyOnce ==
  \A p \in Ids :
    (objT[p] \in Types /\ ~data_on_stack(objT[p])) =>
      /\ freed[p] <= 1
      /\ freed[p] = 0 <=>
           \E s \in Slots : Holds(Mem, s) /\ data_[s] = HeapData(p)

(***************************************************************************)
(* C3: copy-constructing B from a non-empty A gives B A's type token and   *)
(* an equal value in storage of its own (a fresh heap block for heap       *)
(* payloads) and leaves A as it was; and storing through the reference     *)
(* get<T>() returns changes the value of that container and of no other.   *)
(***************************************************************************)
C3_CopyIsIndependent ==
  [][/\ last'.op = "any_copy" =>
          \A s \in Slots, o \in Slots :
            (CopyConstructAt(s, o, FALSE, AnyJunk) /\ type_[o] # nullptr) =>
              /\ Holds(Mem', s)
              /\ type(Mem', s) = type(Mem, o)
              /\ ValueOf(Mem', s) = ValueOf(Mem, o)
              /\ type_'[o] = type_[o] /\ data_'[o] = data_[o]
              /\ ValueOf(Mem', o) = ValueOf(Mem, o)
              /\ objT[data_'[s].id] = "none"
              /\ Live(Mem', data_'[s].id, type_[o])
              /\ data_'[s].id # data_'[o].id
              /\ ~data_on_stack(type_[o]) => data_'[s].tag = "heap"
     /\ (last'.op = "get_store" /\ proc' = "running") =>
          \A s \in Slots, v \in Values :
            (Holds(Mem, s) /\ GetStoreAt(s, type_[s], v)) =>
              /\ ValueOf(Mem', s) = v
              /\ \A o \in Slots \ {s} :
                   Holds(Mem, o) =>
                     /\ Holds(Mem', o)
                     /\ ValueOf(Mem', o) = ValueOf(Mem, o)]_vars

\* a heap payload has just been copied: two containers, two blocks, equal
\* non-zero values
C3_Witness ==
  /\ last.op = "any_copy" /\ last.res = "ok"
  /\ \E s \in Slots, o \in Slots :
       /\ s # o /\ Holds(Mem, s) /\ Holds(Mem, o)
       /\ type_[s] = type_[o] /\ ~data_on_stack(type_[s])
       /\ data_[s].id # data_[o].id
       /\ ValueOf(Mem, s) # 0 /\ ValueOf(Mem, o) # 0

(***************************************************************************)
(* C4: move-constructing B from A, whatever A's state, leaves A empty and  *)
(* B with A's prior descriptor and buffer, and constructs, destroys,       *)
(* allocates and releases nothing.                                         *)
(***************************************************************************)
C4_MoveConstruct ==
  [][last'.op = "any_move" =>
       \A s \in Slots, o \in Slots :
         MoveConstructAt(s, o) =>
           /\ alive'[s] /\ alive'[o]
           /\ type_'[s] = type_[o]
           /\ data_'[s] = data_[o]
           /\ empty(Mem', o)
           /\ Holds(Mem, o) => ValueOf(Mem', s) = ValueOf(Mem, o)
           /\ GhostUnchanged]_vars

\* a heap payload has just been moved from one container to the other
C4_Witness ==
  /\ last.op = "any_move" /\ last.res = "ok"
  /\ \E s \in Slots, o \in Slots :
       /\ s # o /\ Holds(Mem, s) /\ alive[o] /\ empty(Mem, o)
       /\ data_[s].tag = "heap" /\ data_[o] = data_[s]
       /\ Live(Mem, data_[s].id, type_[s])

(***************************************************************************)
(* C5: in every reachable state and for every type U, get<U>() on a        *)
(* container ends on the fatal-error path without a reference exactly when *)
(* the container is empty or its type token differs from U's; otherwise it *)
(* returns a reference to the live stored instance, which is a U.  A call  *)
(* that ended fatally has stopped the program.                             *)
(***************************************************************************)
C5_GetChecksType ==
  /\ last.res = "fatal" <=> proc = "fatal"
  /\ proc = "fatal" => last.op \in {"get", "get_store"}
  /\ \A s \in Slots, U \in Types :
       alive[s] =>
         LET r == get(Mem, s, U)
             refused == r.mem.proc = "fatal" /\ r.ref = NoRef
             returned == r.mem = Mem /\ r.ref # NoRef
         IN /\ refused <=> (empty(Mem, s) \/ type(Mem, s) # typeid(U))
            /\ returned <=> ~refused
            /\ returned => objT[InstanceOf(Mem, r.ref)] = U

\* get<U>() has just failed on a container that holds a value of another type
C5_Witness ==
  /\ last.op = "get" /\ proc = "fatal"
  /\ \A s \in Slots : Holds(Mem, s)

(***************************************************************************)
(* C6: after an assignment (from a value, by copy, by move; source and     *)
(* target distinct objects) the target holds the right-hand side's type    *)
(* and value, and what the target held before has been destroyed exactly   *)
(* once: its destructor ran once (types with one) and, for heap payloads,  *)
(* its block was released once.                                            *)
(***************************************************************************)
PreviousContentDestroyedOnce(s) ==
  Holds(Mem, s) =>
    LET p == data_[s].id
    IN /\ dtor'[p] = dtor[p] + (IF is_pod(type_[s]) THEN 0 ELSE 1)
       /\ freed'[p] = freed[p] + (IF data_on_stack(type_[s]) THEN 0 ELSE 1)

C6_AssignDestroysPreviousOnce ==
  [][(last'.op \in {"assign_value", "assign_copy", "assign_move"}
        /\ last'.res = "ok" /\ ~last'.self) =>
       /\ \A s \in Slots, T \in Types, v \in Values :
            ValueAssignAt(s, T, v, FALSE) =>
              /\ Holds(Mem', s)
              /\ type(Mem', s) = typeid(T)
              /\ ValueOf(Mem', s) = v
              /\ PreviousContentDestroyedOnce(s)
       /\ \A s \in Slots, o \in Slots, junk \in Indet :
            (s # o /\ CopyAssignAt(s, o, FALSE, junk)) =>
              /\ type(Mem', s) = type(Mem, o)
              /\ Holds(Mem, o) => ValueOf(Mem', s) = ValueOf(Mem, o)
              /\ PreviousContentDestroyedOnce(s)
       /\ \A s \in Slots, o \in Slots :
            (s # o /\ MoveAssignAt(s, o)) =>
              /\ type(Mem', s) = type(Mem, o)
              /\ Holds(Mem, o) => ValueOf(Mem', s) = ValueOf(Mem, o)
              /\ PreviousContentDestroyedOnce(s)]_vars

(***************************************************************************)
(* C7: an assignment whose temporary cannot be constructed (the payload    *)
(* copy or the allocation fails) reports the failure to its caller as an   *)
(* error the caller can recover from, and leaves every container as it     *)
(* was.                                                                    *)
(***************************************************************************)
C7_AssignFailureIsRecoverable ==
  [][(last'.op \in {"assign_value", "assign_copy", "assign_move"}
        /\ last'.res # "ok") =>
       /\ last'.res = "throw"
       /\ proc' = "running"
       /\ alive' = alive /\ type_' = type_ /\ data_' = data_
       /\ GhostUnchanged]_vars

(***************************************************************************)
(* C8: assigning a container to itself, by copy or by move, leaves it with *)
(* the same type token and an equal value (empty if it was empty), and the *)
(* instance it refers to afterwards is live: neither destroyed nor         *)
(* released.                                                               *)
(***************************************************************************)
SameAfterSelfAssign(s) ==
  /\ alive'[s]
  /\ type(Mem', s) = type(Mem, s)
  /\ empty(Mem', s) <=> empty(Mem, s)
  /\ Holds(Mem, s) =>
       /\ ValueOf(Mem', s) = ValueOf(Mem, s)
       /\ LET r == get(Mem', s, type_[s])
          IN /\ r.ref # NoRef
             /\ Live(Mem', InstanceOf(Mem', r.ref), type_[s])

C8_SelfAssign ==
  [][(last'.op \in {"assign_copy", "assign_move"} /\ last'.self) =>
       \A s \in Slots :
         /\ \A junk \in Indet :
              CopyAssignAt(s, s, FALSE, junk) => SameAfterSelfAssign(s)
         /\ MoveAssignAt(s, s) => SameAfterSelfAssign(s)]_vars

\* a container holding a heap payload with a destructor has just been
\* copy-assigned to itself: the old block is released, the new one is live
C8_Witness ==
  /\ last.op = "assign_copy" /\ last.self /\ last.res = "ok"
  /\ \E s \in Slots :
       /\ Holds(Mem, s) /\ ~data_on_stack(type_[s]) /\ ~is_pod(type_[s])
       /\ ValueOf(Mem, s) # 0
       /\ Live(Mem, data_[s].id, type_[s])
       /\ \E p \in Ids : p # data_[s].id /\ freed[p] = 1

(***************************************************************************)
(* C9: swap(A,B) exchanges descriptor and buffer of A and B, so that what  *)
(* was in A is retrievable from B and vice versa; it constructs, destroys, *)
(* allocates and releases nothing; a second swap(A,B) restores both; and   *)
(* swap(A,A) changes nothing.                                              *)
(***************************************************************************)
C9_Swap ==
  [][last'.op = "swap" =>
       \A s \in Slots, o \in Slots :
         SwapAt(s, o) =>
           /\ type_'[s] = type_[o] /\ data_'[s] = data_[o]
           /\ type_'[o] = type_[s] /\ data_'[o] = data_[s]
           /\ alive' = alive
           /\ Holds(Mem, o) => ValueOf(Mem', s) = ValueOf(Mem, o)
           /\ Holds(Mem, s) => ValueOf(Mem', o) = ValueOf(Mem, s)
           /\ GhostUnchanged
           /\ LET again == swap(Mem', s, o)
              IN again.type_ = type_ /\ again.data_ = data_
           /\ s = o => (type_' = type_ /\ data_' = data_)]_vars

\* two containers, an inline payload and a heap payload, have just been
\* exchanged
C9_Witness ==
  /\ last.op = "swap" /\ ~last.self
  /\ \E s \in Slots, o \in Slots :
       /\ Holds(Mem, s) /\ Holds(Mem, o)
       /\ data_[s].tag = "stack" /\ data_[o].tag = "heap"
       /\ ValueOf(Mem, s) # ValueOf(Mem, o)

(***************************************************************************)
(* C10: clear() leaves the container empty; a second clear() right after   *)
(* it leaves it empty again, runs no destructor and releases no block.     *)
(***************************************************************************)
C10_ClearIdempotent ==
  [][last'.op = "clear" =>
       \A s \in Slots :
         ClearAt(s) =>
           /\ alive'[s] /\ empty(Mem', s)
           /\ last'.rep =>
                /\ empty(Mem, s)
                /\ type_' = type_ /\ data_' = data_
                /\ GhostUnchanged
           /\ LET twice == clear(Mem', s)
              IN /\ empty(twice, s)
                 /\ twice.dtor = dtor' /\ twice.freed = freed']_vars

\* a container whose heap block the first clear() released has just been
\* cleared a second time
C10_Witness ==
  /\ last.op = "clear" /\ last.rep
  /\ alive[last.cleared] /\ empty(Mem, last.cleared)
  /\ data_[last.cleared].tag = "heap"
  /\ freed[data_[last.cleared].id] = 1

(***************************************************************************)
(* C11: a payload type of at most three machine words, aligned to at most  *)
(* one machine word, is handled by the inline accessors everywhere         *)
(* (construction, the descriptor's copy and destroy, get), a type over     *)
(* either limit by the heap accessors everywhere; a container holding an   *)
(* inline type keeps the value in its own buffer; no instance of an inline *)
(* type is ever placed in a heap block or released as one.                 *)
(***************************************************************************)
Fits(T) == sizeof_(T) <= 3 * WordBytes /\ alignof_(T) <= WordBytes

StrategyOf(T) == IF Fits(T) THEN "TypeOnStack" ELSE "TypeOnHeap"

SameChoiceEverywhere(T) ==
  /\ data_on_stack(T) <=> Fits(T)
  /\ Strategy(T) = StrategyOf(T)
  /\ TypeInfo(T).create_from_data = StrategyOf(T)
  /\ TypeInfo(T).destroy \in {nullptr, StrategyOf(T)}
  /\ \A s \in Slots :
       (Holds(Mem, s) /\ type_[s] = get_type(T)) =>
         /\ data_[s].tag = (IF Fits(T) THEN "stack" ELSE "heap")
         /\ get(Mem, s, T).ref.kind = data_[s].tag

InlineNeverOnHeap ==
  \A p \in Ids :
    (objT[p] \in Types /\ Fits(objT[p])) =>
      /\ freed[p] = 0
      /\ hval[p] = 0
      /\ \A s \in Slots : data_[s] # HeapData(p)

\* an instance of an inline type made by this step lies in a container's
\* buffer, and the step releases nothing if all it touched is inline
InlineStep ==
  /\ \A p \in Ids :
       (objT[p] = "none" /\ objT'[p] \in Types /\ Fits(objT'[p])) =>
         \E s \in Slots : data_'[s].tag = "stack" /\ data_'[s].id = p
  /\ (\A p \in Ids : objT'[p] \in Types => Fits(objT'[p])) => freed' = freed

C11_InlineTypesNeverUseHeap ==
  /\ [](\A T \in Types : SameChoiceEverywhere(T))
  /\ []InlineNeverOnHeap
  /\ [][InlineStep]_vars

\* a value that exactly fits has been constructed, copied, and one of the
\* two destroyed, all in the containers' own buffers
C11_Witness ==
  /\ \E s \in Slots :
       /\ Holds(Mem, s) /\ sizeof_(type_[s]) = kStack /\ alignof_(type_[s]) = kAlign
       /\ data_[s].tag = "stack" /\ ValueOf(Mem, s) # 0
  /\ \E p \in Ids : objT[p] \in Types /\ Fits(objT[p]) /\ dtor[p] = 1
  /\ \A p \in Ids : objT[p] \in Types => (Fits(objT[p]) /\ freed[p] = 0)

(***************************************************************************)
(* C12: in every reachable state, for every container, type() is the token *)
(* of the type of the instance the container holds when it is non-empty    *)
(* and the token of void when it is empty, and empty() is true exactly     *)
(* when type() is the token of void.                                       *)
(***************************************************************************)
C12_TypeAndEmptyAgree ==
  \A s \in Slots :
    alive[s] =>
      /\ empty(Mem, s) <=> type(Mem, s) = typeid_void
      /\ empty(Mem, s) <=> type_[s] = nullptr
      /\ ~empty(Mem, s) =>
           /\ objT[data_[s].id] \in Types
           /\ type(Mem, s) = typeid(objT[data_[s].id])

\* type() has just been called while one container holds a value and the
\* other is empty with the bytes of a former value still in its buffer
C12_Witness ==
  /\ last.op = "type"
  /\ \E s \in Slots, o \in Slots :
       /\ Holds(Mem, s) /\ type(Mem, s) = typeid(type_[s])
       /\ alive[o] /\ empty(Mem, o) /\ data_[o].id # 0
       /\ type(Mem, o) = typeid_void

(***************************************************************************)
(* C13: representation invariant.  In every reachable state a non-empty    *)
(* container's descriptor is paired with a matching buffer: an inline      *)
(* descriptor with the buffer holding a live inline instance of that type, *)
(* a heap descriptor with a non-null pointer to a live, unreleased heap     *)
(* block of that type; an empty container holds no value: no instance that *)
(* still awaits its destructor is left in a container without descriptor   *)
(* or under a descriptor of another type.                                  *)
(***************************************************************************)
Paired(s) ==
  LET T == type_[s]
      d == data_[s]
  IN /\ T \in Types
     /\ d.tag = (IF Strategy(T) = "TypeOnStack" THEN "stack" ELSE "heap")
     /\ d.id # 0
     /\ Live(Mem, d.id, T)
     /\ InstanceOf(Mem, TypeInfo_get_ptr(T, Mem, s)) = d.id

C13_RepresentationInvariant ==
  /\ \A s \in Slots : alive[s] => (type_[s] = nullptr \/ Paired(s))
  /\ \A p \in Ids :
       (objT[p] \in Types /\ ~is_pod(objT[p]) /\ dtor[p] = 0) =>
         \E s \in Slots : Holds(Mem, s) /\ type_[s] = objT[p] /\ data_[s].id = p

\* one container holds an inline value and the other a heap block
C13_Witness ==
  /\ \E s \in Slots, o \in Slots :
       /\ Holds(Mem, s) /\ Paired(s) /\ data_[s].tag = "stack"
       /\ Holds(Mem, o) /\ Paired(o) /\ data_[o].tag = "heap"
  /\ nextId > 2

(***************************************************************************)
(* C14: exclusive ownership.  In every reachable state no heap block is    *)
(* referenced by two non-empty containers, no heap block has been released *)
(* more than once, and no non-empty container refers to a released block.  *)
(***************************************************************************)
RefersToBlock(s, p) ==
  Holds(Mem, s) /\ ~data_on_stack(type_[s]) /\ data_[s].id = p

C14_ExclusiveOwnership ==
  \A p \in Ids :
    /\ freed[p] <= 1
    /\ \A s \in Slots, o \in Slots :
         (RefersToBlock(s, p) /\ RefersToBlock(o, p)) => s = o
    /\ \A s \in Slots : RefersToBlock(s, p) => freed[p] = 0

\* two containers hold equal values in two heap blocks of one type, the
\* second a copy of the first
C14_Witness ==
  \E s \in Slots, o \in Slots, p \in Ids, q \in Ids :
    /\ s # o /\ p # q
    /\ RefersToBlock(s, p) /\ RefersToBlock(o, q)
    /\ type_[s] = type_[o]
    /\ hval[p] # 0 /\ hval[q] # 0

(***************************************************************************)
(* C15: balanced lifetime.  An instance of a type with a non-trivial       *)
(* destructor, constructed into a container from a value or by copy, has   *)
(* its destructor run at most once, and not yet exactly while a non-empty  *)
(* container holds it; so once every container has been destroyed, each    *)
(* such instance has been destroyed exactly once: as many destructions as  *)
(* constructions.                                                          *)
(***************************************************************************)
HasDestructor(p) == objT[p] \in Types /\ ~is_pod(objT[p])

RECURSIVE SumOver(_, _)
SumOver(f, S) ==
  IF S = {} THEN 0
  ELSE LET x == CHOOSE y \in S : TRUE IN f[x] + SumOver(f, S \ {x})

C15_BalancedLifetime ==
  /\ \A p \in Ids :
       HasDestructor(p) =>
         /\ dtor[p] <= 1
         /\ dtor[p] = 0 <=>
              \E s \in Slots :
                Holds(Mem, s) /\ type_[s] = objT[p] /\ data_[s].id = p
  /\ (\A s \in Slots : ~alive[s]) =>
       SumOver(dtor, {p \in Ids : HasDestructor(p)})
         = Cardinality({p \in Ids : HasDestructor(p)})

\* both containers are gone after a value with a destructor was constructed
\* and copied, and each of the two instances was destroyed once
C15_Witness ==
  /\ last.op = "dtor"
  /\ \A s \in Slots : ~alive[s]
  /\ \A p \in Ids : HasDestructor(p) /\ dtor[p] = 1
  /\ \E p \in Ids, q \in Ids : p # q /\ objT[p] = objT[q]

(***************************************************************************)
(* C16: descriptor registry, with several threads calling get_type<T>()    *)
(* at any time, first calls included.  For each type T the constructor of  *)
(* the descriptor runs at most once, so every call returns the address of  *)
(* the one instance; a thread that has passed the declaration and is about *)
(* to return finds the initialisation complete and the three members set   *)
(* to T's destroy, create_from_data and type token; a descriptor whose     *)
(* initialisation is complete never changes again; two types have two      *)
(* descriptors with two tokens.                                            *)
(***************************************************************************)
RegistryInvariant ==
  /\ \A T \in Types :
       /\ made[T] <= 1
       /\ guard[T] = "done" => static_tp[T] = TypeInfo(T)
       /\ guard[T] = "uninit" <=> made[T] = 0
  /\ \A t \in Threads :
       pc[t] = "ret" =>
         /\ guard[call[t]] = "done"
         /\ static_tp[get_type(call[t])] = TypeInfo(call[t])
  /\ \A t \in Threads, u \in Threads :
       (pc[t] = "ret" /\ pc[u] = "ret") =>
         (get_type(call[t]) = get_type(call[u]) <=> call[t] = call[u])
  /\ \A T \in Types, U \in Types :
       (T # U /\ guard[T] = "done" /\ guard[U] = "done") =>
         static_tp[T].ptype_info # static_tp[U].ptype_info

DescriptorFrozen ==
  \A T \in Types :
    guard[T] = "done" => (guard'[T] = "done" /\ static_tp'[T] = static_tp[T])

C16_DescriptorRegistry ==
  /\ []RegistryInvariant
  /\ [][DescriptorFrozen]_vars

\* all threads are returning from get_type for one type, whose
\* constructor ran once, while the descriptor of another type exists too
C16_Witness ==
  /\ \A t \in Threads : pc[t] = "ret" /\ call[t] = call[1]
  /\ made[call[1]] = 1
  /\ \E U \in Types : U # call[1] /\ guard[U] = "done"

(***************************************************************************)
(* C17: constructing or assigning a container from a container (a         *)
(* non-const lvalue, which the templates any(T&&) and operator=(T&&) take, *)
(* a const lvalue, an rvalue) never wraps the container as a payload: the  *)
(* result has the source's type token and value, or is empty if the source *)
(* is empty; an lvalue source keeps its type and value; an rvalue source   *)
(* is left empty.  C17_ContainerArgumentNotWrapped states this for every   *)
(* source, the target of the assignment included;                          *)
(* C17_ContainerArgumentNotWrappedDistinct states the last part for a      *)
(* source that is not the target, and for  s = std::move(s)  that s keeps  *)
(* its type and value.                                                     *)
(***************************************************************************)
NotWrapped(s, o) ==
  /\ alive'[s]
  /\ type(Mem', s) # typeid("any")
  /\ type(Mem', s) = type(Mem, o)
  /\ empty(Mem, o) => empty(Mem', s)
  /\ Holds(Mem, o) => ValueOf(Mem', s) = ValueOf(Mem, o)

SourceKept(o) ==
  /\ alive'[o]
  /\ type(Mem', o) = type(Mem, o)
  /\ Holds(Mem, o) => ValueOf(Mem', o) = ValueOf(Mem, o)

SourceEmptied(o) == alive'[o] /\ empty(Mem', o)

\* s was made from, or assigned from, the lvalue o by this step (the
\* temporary of an assignment dies in the step, whatever its bytes were)
CopiedFromLvalue(s, o) ==
  \/ /\ last'.op = "any_copy"
     /\ \E junk \in Indet :
          \/ ForwardConstructAt(s, o, FALSE, junk)
          \/ CopyConstructAt(s, o, FALSE, junk)
  \/ /\ last'.op = "assign_copy" /\ last'.self = (s = o)
     /\ \/ ForwardAssignAt(s, o, FALSE, AnyJunk)
        \/ CopyAssignAt(s, o, FALSE, AnyJunk)

\* s was made from, or assigned from, the rvalue o by this step
TakenFromRvalue(s, o) ==
  \/ last'.op = "any_move" /\ MoveConstructAt(s, o)
  \/ last'.op = "assign_move" /\ last'.self = (s = o) /\ MoveAssignAt(s, o)

C17_ContainerArgumentNotWrapped ==
  [][(last'.op \in {"any_copy", "any_move", "assign_copy", "assign_move"}
        /\ last'.res = "ok") =>
       \A s \in Slots, o \in Slots :
         /\ CopiedFromLvalue(s, o) => (NotWrapped(s, o) /\ SourceKept(o))
         /\ TakenFromRvalue(s, o) => (NotWrapped(s, o) /\ SourceEmptied(o))]_vars

C17_ContainerArgumentNotWrappedDistinct ==
  [][(last'.op \in {"any_copy", "any_move", "assign_copy", "assign_move"}
        /\ last'.res = "ok") =>
       \A s \in Slots, o \in Slots :
         /\ CopiedFromLvalue(s, o) => (NotWrapped(s, o) /\ SourceKept(o))
         /\ TakenFromRvalue(s, o) =>
              /\ NotWrapped(s, o)
              /\ IF s # o THEN SourceEmptied(o) ELSE SourceKept(o)]_vars

\* a container holding a heap value has just been assigned to another
\* container: both hold that type and equal values, in two blocks
C17_Witness ==
  /\ last.op = "assign_copy" /\ last.res = "ok" /\ ~last.self
  /\ \E s \in Slots, o \in Slots :
       /\ s # o /\ Holds(Mem, s) /\ Holds(Mem, o)
       /\ type(Mem, s) = type(Mem, o) /\ type(Mem, s) # typeid("any")
       /\ data_[s].tag = "heap" /\ data_[s] # data_[o]
       /\ ValueOf(Mem, s) # 0 /\ ValueOf(Mem, o) # 0

(***************************************************************************)
(* C18: empty(), type() and a get<T>() that passes its checks are pure     *)
(* reads: the step leaves every container's descriptor and buffer, the     *)
(* values, and the program's run state as they were, and constructs,       *)
(* destroys, allocates and releases nothing; a container is empty after    *)
(* the call exactly if it was before.                                      *)
(***************************************************************************)
ReadStep(s) ==
  \/ last'.op = "empty" /\ EmptyAt(s)
  \/ last'.op = "type" /\ TypeQueryAt(s)
  \/ /\ last'.op = "get" /\ last'.res = "ok"
     /\ \E T \in Types : check_type(Mem, s, T) /\ GetAt(s, T)

C18_ReadsArePure ==
  [][last'.op \in {"empty", "type", "get"} =>
       \A s \in Slots :
         ReadStep(s) =>
           /\ alive' = alive /\ type_' = type_ /\ data_' = data_
           /\ GhostUnchanged
           /\ proc' = proc
           /\ empty(Mem', s) <=> empty(Mem, s)
           /\ type(Mem', s) = type(Mem, s)
           /\ Holds(Mem, s) => ValueOf(Mem', s) = ValueOf(Mem, s)]_vars

\* get<T>() has just returned a reference to a value in a heap block, which
\* is still there
C18_Witness ==
  /\ last.op = "get" /\ last.res = "ok" /\ proc = "running"
  /\ \E s \in Slots :
       /\ Holds(Mem, s) /\ data_[s].tag = "heap"
       /\ Live(Mem, data_[s].id, type_[s])
       /\ ValueOf(Mem, s) # 0
  /\ \E o \in Slots : alive[o] /\ empty(Mem, o)

====
